---- MODULE Spec2Model ----
(***************************************************************************)
(* A model of src/cli/operations.py: the three commands of the labeling    *)
(* CLI (onboard, download, upload) and the pure helpers they use.          *)
(*                                                                         *)
(* Strings that the code inspects character by character (file names,      *)
(* paths) are sequences of one-character strings.  The remote service,     *)
(* the blob store and the local file system are the environment: their     *)
(* answers are chosen nondeterministically.                                *)
(*                                                                         *)
(*   SpecOnboard  : one run of onboard_folder over a chosen folder tree.   *)
(*   SpecTagging  : successive download / upload commands over the local   *)
(*                  tagging location.                                      *)
(***************************************************************************)
EXTENDS Integers, Sequences, FiniteSets, TLC

VARIABLES
    pc,               \* position of the running command ("idle": none running)
    cmd,              \* the command running or last run
    result,           \* how the last command ended: "none", "ok", "error", "ImageLimitException"
    commands,         \* number of commands started so far
    requests,         \* HTTP requests issued by the current command, in order
    http_error,       \* some request of the current command was answered with an error status
    steps,            \* local steps taken by the current command, in order
    \* ---- onboard_folder
    folder_name,      \* the folder given on the command line
    tree,             \* the files below it: [dir |-> <<component, ...>>, name |-> file name]
    onboarding_files, \* the list built by the walk
    blobs,            \* successful create_blob_from_path calls, in order
    \* ---- download / upload
    fs,               \* the local tagging location
    fs_before,        \* the tagging location when the current command started
    num_images,       \* download's argument
    images_json,      \* the image records the service returned (their locations)
    image_urls,       \* json_data['imageUrls']
    local_images,     \* downloaded_file_paths
    reported          \* the count printed by "Successfully downloaded ..."

vars == <<pc, cmd, result, commands, requests, http_error, steps,
          folder_name, tree, onboarding_files, blobs,
          fs, fs_before, num_images, images_json, image_urls, local_images, reported>>

onboardVars == <<folder_name, tree, onboarding_files, blobs>>
taggingVars == <<fs, fs_before, num_images, images_json, image_urls, local_images, reported>>

(***************************************************************************)
(* Bounds of the model.                                                    *)
(***************************************************************************)
MaxFiles == 2
MaxRecords == 2
MaxCommands == 3

(***************************************************************************)
(* Program constants.                                                      *)
(***************************************************************************)
DEFAULT_NUM_IMAGES == 40
LOWER_LIMIT == 0
UPPER_LIMIT == 100

(***************************************************************************)
(* Character strings.                                                      *)
(***************************************************************************)
UpperChars == <<"A","B","C","D","E","F","G","H","I","J","K","L","M",
                "N","O","P","Q","R","S","T","U","V","W","X","Y","Z">>
LowerChars == <<"a","b","c","d","e","f","g","h","i","j","k","l","m",
                "n","o","p","q","r","s","t","u","v","w","x","y","z">>

\* str.lower() on one character
LowerChar(c) ==
    IF \E i \in 1..26 : UpperChars[i] = c
    THEN LowerChars[CHOOSE i \in 1..26 : UpperChars[i] = c]
    ELSE c

\* str.lower()
lower(s) == [i \in 1..Len(s) |-> LowerChar(s[i])]

\* str.startswith
startswith(s, p) == Len(s) >= Len(p) /\ SubSeq(s, 1, Len(p)) = p

\* str.rfind of a single character: the last index holding c, 0 when there is none
\* (Python's -1 shifted to the 1-based indices used here).
rfind(s, c) ==
    IF \E i \in 1..Len(s) : s[i] = c
    THEN CHOOSE i \in 1..Len(s) : s[i] = c /\ \A j \in (i+1)..Len(s) : s[j] # c
    ELSE 0

\* pathlib.PurePath.suffix of a bare file name: the text from the last dot on,
\* empty when the dot is the first or the last character or there is none.
suffix(name) ==
    LET i == rfind(name, ".")
    IN  IF 1 < i /\ i < Len(name) THEN SubSeq(name, i, Len(name)) ELSE <<>>

\* str.replace(old, ""): every non-overlapping occurrence, left to right.
RECURSIVE replace_with_empty(_, _)
replace_with_empty(s, old) ==
    IF Len(s) < Len(old) \/ Len(old) = 0 THEN s
    ELSE IF SubSeq(s, 1, Len(old)) = old
         THEN replace_with_empty(SubSeq(s, Len(old) + 1, Len(s)), old)
         ELSE <<Head(s)>> \o replace_with_empty(Tail(s), old)

\* os.path.join(a, b) on POSIX
path_join(a, b) ==
    IF startswith(b, <<"/">>) THEN b
    ELSE IF Len(a) = 0 \/ a[Len(a)] = "/" THEN a \o b
    ELSE a \o <<"/">> \o b

\* The components of a path string: the pieces between slashes.
RECURSIVE split_slash(_, _)
split_slash(s, cur) ==
    IF Len(s) = 0 THEN <<cur>>
    ELSE IF Head(s) = "/" THEN <<cur>> \o split_slash(Tail(s), <<>>)
    ELSE split_slash(Tail(s), Append(cur, Head(s)))

RECURSIVE join_slash(_)
join_slash(parts) ==
    IF Len(parts) = 0 THEN <<>>
    ELSE IF Len(parts) = 1 THEN parts[1]
    ELSE parts[1] \o <<"/">> \o join_slash(Tail(parts))

\* str(pathlib.Path(s)) on POSIX: empty and "." components dropped, a leading
\* slash kept (exactly two leading slashes kept as two), "." for the empty path.
PurePath(s) ==
    LET parts == SelectSeq(split_slash(s, <<>>), LAMBDA p : p # <<>> /\ p # <<".">>)
        root  == IF startswith(s, <<"/","/">>) /\ ~startswith(s, <<"/","/","/">>)
                 THEN <<"/","/">>
                 ELSE IF startswith(s, <<"/">>) THEN <<"/">> ELSE <<>>
        body  == join_slash(parts)
    IN  IF Len(root) = 0 /\ Len(body) = 0 THEN <<".">> ELSE root \o body

(***************************************************************************)
(* supported_file_type and strip_path_prefix.                              *)
(***************************************************************************)
SupportedSuffixes ==
    { <<".","p","n","g">>, <<".","j","p","g">>,
      <<".","j","p","e","g">>, <<".","g","i","f">> }

\* Faulty variant: the suffix compared without lower().
supported_file_type_case_sensitive(file_name) ==
    IF startswith(file_name, <<".">>) THEN FALSE
    ELSE suffix(file_name) \in SupportedSuffixes

supported_file_type(file_name) ==
    IF startswith(file_name, <<".">>) THEN FALSE
    ELSE lower(suffix(file_name)) \in SupportedSuffixes

strip_path_prefix(folder, file_path) ==
    LET stripped_path == replace_with_empty(file_path, folder)
    IN  IF startswith(stripped_path, <<"/">>)
        THEN PurePath(Tail(stripped_path))
        ELSE PurePath(stripped_path)

(***************************************************************************)
(* The folder trees onboard_folder is run on.                              *)
(***************************************************************************)
Folders == { <<"a">>, <<"d">>, <<"d","/">> }

DirNames == { <<>>, << <<"a">> >>, << <<"a">>, <<"s">> >> }

FileNames ==
    { <<"b",".","p","n","g">>,               \* b.png
      <<"a","b",".","p","n","g">>,           \* ab.png
      <<"a",".","J","P","G">>,               \* a.JPG
      <<"c",".","j","p","e","g">>,           \* c.jpeg
      <<"c",".","g","i","f">>,               \* c.gif
      <<".","b",".","p","n","g">>,           \* .b.png
      <<"b",".","t","x","t">>,               \* b.txt
      <<"b",".","p","n","g",".","t","x","t">> } \* b.png.txt

Entries == [dir : DirNames, name : FileNames]

Trees == { t \in SUBSET Entries : Cardinality(t) <= MaxFiles }

\* The root os.walk reports for a directory: the top joined with each component.
RECURSIVE walk_root(_, _)
walk_root(top, dir) ==
    IF Len(dir) = 0 THEN top
    ELSE walk_root(path_join(top, Head(dir)), Tail(dir))

\* os.path.join(root, file_name) for a file of the tree
walk_path(top, e) == path_join(walk_root(top, e.dir), e.name)

IsPrefix(p, d) == Len(p) <= Len(d) /\ SubSeq(d, 1, Len(p)) = p

\* os.walk is top-down: a directory's own files come first, then each of its
\* subdirectories' subtrees in turn. The order of the files of one directory and
\* of sibling directories is whatever the file system lists.
PreOrder(s) ==
    \A k \in 1..Len(s) :
        LET p == s[k].dir
            inside == { i \in 1..Len(s) : IsPrefix(p, s[i].dir) }
        IN  /\ \A i \in inside, j \in inside, m \in 1..Len(s) :
                   i < m /\ m < j => m \in inside
            /\ \A i \in inside, j \in inside :
                   s[i].dir = p /\ s[j].dir # p => i < j

WalkOrders(top, t) ==
    LET found == { e \in t : supported_file_type(e.name) }
        n == Cardinality(found)
    IN  { [i \in 1..n |-> walk_path(top, s[i])] :
            s \in { q \in [1..n -> found] :
                      /\ \A i, j \in 1..n : i # j => q[i] # q[j]
                      /\ PreOrder(q) } }

(***************************************************************************)
(* HTTP.                                                                   *)
(***************************************************************************)
Statuses == { 200, 403 }

\* requests.Response.raise_for_status raises for a 4xx or 5xx status
IsError(status) == status >= 400

NoUrl == <<>>

Request(endpoint, count, url, status) ==
    [endpoint |-> endpoint, count |-> count, url |-> url, status |-> status]

RequestsTo(endpoint) ==
    { i \in 1..Len(requests) : requests[i].endpoint = endpoint }

(***************************************************************************)
(* onboard_folder                                                          *)
(***************************************************************************)
\* Where onboard_folder goes after the walk: it returns when nothing was found.
\* Faulty variant: no early return on an empty list.
after_walk_no_return(files) == "upload"

after_walk(files) == IF Len(files) = 0 THEN "idle" ELSE "upload"

\* The walk and the filter: os.walk over folder_name, keeping the supported files.
OnboardWalk ==
    /\ pc = "walk"
    /\ \E files \in WalkOrders(folder_name, tree) :
          /\ onboarding_files' = files
          /\ pc' = after_walk(files)
          /\ result' = IF after_walk(files) = "idle" THEN "ok" ELSE result
    /\ steps' = Append(steps, "walk")
    /\ UNCHANGED <<cmd, commands, requests, http_error, folder_name, tree, blobs, taggingVars>>

\* One iteration of the upload loop in which create_blob_from_path succeeds.
CreateBlob ==
    /\ pc = "upload"
    /\ Len(blobs) < Len(onboarding_files)
    /\ LET blob_path == onboarding_files[Len(blobs) + 1]
       IN  blobs' = Append(blobs, [name |-> strip_path_prefix(folder_name, blob_path),
                                   path |-> blob_path])
    /\ steps' = Append(steps, "blob")
    /\ UNCHANGED <<pc, cmd, result, commands, requests, http_error,
                   folder_name, tree, onboarding_files, taggingVars>>

\* One iteration in which create_blob_from_path raises: the exception leaves
\* onboard_folder.
CreateBlobRaises ==
    /\ pc = "upload"
    /\ Len(blobs) < Len(onboarding_files)
    /\ pc' = "idle"
    /\ result' = "error"
    /\ steps' = Append(steps, "blob_failed")
    /\ UNCHANGED <<cmd, commands, requests, http_error, onboardVars, taggingVars>>

\* onboard_container, called once the loop is over.
OnboardContainer ==
    /\ pc = "upload"
    /\ Len(blobs) = Len(onboarding_files)
    /\ \E status \in Statuses :
          /\ requests' = Append(requests, Request("onboardcontainer", 0, NoUrl, status))
          /\ http_error' = (http_error \/ IsError(status))
          /\ result' = IF IsError(status) THEN "error" ELSE "ok"
    /\ pc' = "idle"
    /\ steps' = Append(steps, "onboard_container")
    /\ UNCHANGED <<cmd, commands, onboardVars, taggingVars>>

(***************************************************************************)
(* The local tagging location.                                             *)
(***************************************************************************)
\* exists: the tagging directory exists; json: the command that wrote data.json
\* (0: no data.json); data: the files of the data directory, each with the
\* command that wrote it and what its body came from.
EmptyFs == [exists |-> FALSE, json |-> 0, data |-> {}]

File(name, batch, body) == [name |-> name, batch |-> batch, body |-> body]

\* shutil.rmtree(file_tree, ignore_errors=True): whatever cannot be removed
\* stays, and the failure is ignored.
shutil_rmtree(f) ==
    { [exists |-> (j # 0 \/ kept # {} \/ e), json |-> j, data |-> kept] :
        j \in {0, f.json}, kept \in SUBSET f.data, e \in BOOLEAN }

\* Lines 167-176: remove the tagging directory when it exists, then create the
\* data directory.
prepare_tree(f) ==
    { [g EXCEPT !.exists = TRUE] : g \in (IF f.exists THEN shutil_rmtree(f) ELSE {f}) }

\* open(path, "wb") and the writes: the file of that name is created or replaced.
write_file(f, name, batch, body) ==
    [f EXCEPT !.data = { x \in f.data : x.name # name } \cup { File(name, batch, body) }]

(***************************************************************************)
(* download                                                                *)
(***************************************************************************)
NoCount == [none |-> TRUE, n |-> 0]
Count(k) == [none |-> FALSE, n |-> k]

NumImages == { NoCount } \cup { Count(k) : k \in { -1, 0, 1, 2, 100, 101 } }

\* Faulty variant: the lower limit itself accepted.
_download_bounds_inclusive(num) ==
    LET images_to_download == IF num.none THEN DEFAULT_NUM_IMAGES ELSE num.n
    IN  [raises |-> images_to_download < LOWER_LIMIT \/ images_to_download > UPPER_LIMIT,
         value  |-> images_to_download]

_download_bounds(num) ==
    LET images_to_download == IF num.none THEN DEFAULT_NUM_IMAGES ELSE num.n
    IN  [raises |-> images_to_download <= LOWER_LIMIT \/ images_to_download > UPPER_LIMIT,
         value  |-> images_to_download]

\* Image locations the service hands out: URLs as their path segments.
Urls == { <<"c", "1.jpg">>, <<"c", "2.jpg">>, <<"e", "1.jpg">> }

\* URL.name: the last path segment
url_name(url) == url[Len(url)]

\* What the images endpoint may answer to a request for count images: at most
\* count records, each image once.
Responses(count) ==
    LET m == IF count < MaxRecords THEN count ELSE MaxRecords
    IN  UNION { { r \in [1..n -> [imagelocation : Urls]] :
                    \A i, j \in 1..n : i # j => r[i] # r[j] } : n \in 0..m }

\* utils.vott_parser.create_vott_json_from_image_labels: a document with one
\* frame per label, and the labels' image locations.
create_vott_json_from_image_labels(labels) ==
    [vott_json  |-> [frames |-> { url_name(labels[i].imagelocation) : i \in 1..Len(labels) },
                     inputTags |-> "classification_list"],
     image_urls |-> [i \in 1..Len(labels) |-> labels[i].imagelocation]]

\* What the command does once the service answered: it returns when there is
\* nothing to download.
\* Faulty variant: no early return on an empty answer.
after_images_no_return(count) == "prepare"

after_images(count) == IF count = 0 THEN "idle" ELSE "prepare"

StartCommand(name) ==
    /\ pc = "idle"
    /\ commands < MaxCommands
    /\ commands' = commands + 1
    /\ cmd' = name
    /\ fs_before' = fs

\* download(config, num_images) with an argument _download_bounds rejects.
DownloadRejected ==
    /\ StartCommand("download")
    /\ \E num \in NumImages :
          /\ _download_bounds(num).raises
          /\ num_images' = num
    /\ pc' = "idle"
    /\ result' = "ImageLimitException"
    /\ requests' = <<>>
    /\ http_error' = FALSE
    /\ steps' = <<"bounds_failed">>
    /\ images_json' = <<>>
    /\ image_urls' = <<>>
    /\ local_images' = <<>>
    /\ reported' = 0
    /\ UNCHANGED <<fs, onboardVars>>

\* download up to the answer of the images endpoint (lines 139-161).
DownloadRequest ==
    /\ StartCommand("download")
    /\ \E num \in NumImages :
          /\ ~_download_bounds(num).raises
          /\ num_images' = num
          /\ \E status \in Statuses :
                /\ requests' = <<Request("images", _download_bounds(num).value, NoUrl, status)>>
                /\ http_error' = IsError(status)
                /\ IF IsError(status)
                   THEN /\ pc' = "idle"
                        /\ result' = "error"
                        /\ images_json' = <<>>
                   ELSE \E resp \in Responses(_download_bounds(num).value) :
                          /\ images_json' = resp
                          /\ pc' = after_images(Len(resp))
                          /\ result' = IF after_images(Len(resp)) = "idle" THEN "ok" ELSE "none"
    /\ steps' = <<"images_request">>
    /\ image_urls' = <<>>
    /\ local_images' = <<>>
    /\ reported' = 0
    /\ UNCHANGED <<fs, onboardVars>>

\* Lines 163-181: the old tagging directory is removed, the data directory is
\* created, and the labels become the document and the list of image URLs.
DownloadPrepare ==
    /\ pc = "prepare"
    /\ \E g \in prepare_tree(fs) : fs' = g
    /\ image_urls' = create_vott_json_from_image_labels(images_json).image_urls
    /\ pc' = "write_vott"
    /\ steps' = Append(steps, "prepare")
    /\ UNCHANGED <<cmd, result, commands, requests, http_error, onboardVars,
                   fs_before, num_images, images_json, local_images, reported>>

\* write_vott_data: data.json beside the data directory, unless the document is empty.
WriteVottData ==
    /\ pc = "write_vott"
    /\ LET vott_data == create_vott_json_from_image_labels(images_json).vott_json
       IN  fs' = IF DOMAIN vott_data = {} THEN fs ELSE [fs EXCEPT !.json = commands]
    /\ pc' = "images"
    /\ steps' = Append(steps, "write_vott")
    /\ UNCHANGED <<cmd, result, commands, requests, http_error, onboardVars,
                   fs_before, num_images, images_json, image_urls, local_images, reported>>

\* What download_images writes for the answer to its GET: the response body,
\* whatever the status (no raise_for_status).
image_body(status) == IF IsError(status) THEN "error_page" ELSE "image"

\* One iteration of the loop of download_images.
DownloadImage ==
    /\ pc = "images"
    /\ Len(local_images) < Len(image_urls)
    /\ LET url == image_urls[Len(local_images) + 1]
       IN  \E status \in Statuses :
              /\ requests' = Append(requests, Request("image", 0, url, status))
              /\ http_error' = (http_error \/ IsError(status))
              /\ fs' = write_file(fs, url_name(url), commands, image_body(status))
              /\ local_images' = Append(local_images, url_name(url))
    /\ steps' = Append(steps, "image")
    /\ UNCHANGED <<pc, cmd, result, commands, onboardVars,
                   fs_before, num_images, images_json, image_urls, reported>>

\* Lines 184-188: the count is reported and download returns.
DownloadFinish ==
    /\ pc = "images"
    /\ Len(local_images) = Len(image_urls)
    /\ reported' = Len(local_images)
    /\ pc' = "idle"
    /\ result' = "ok"
    /\ steps' = Append(steps, "finish")
    /\ UNCHANGED <<cmd, commands, requests, http_error, onboardVars,
                   fs, fs_before, num_images, images_json, image_urls, local_images>>

(***************************************************************************)
(* upload                                                                  *)
(***************************************************************************)
\* open(data.json) and json.load: they raise when there is no data.json.
can_read(f) == f.json # 0

\* After process_vott_json: an exception leaves upload, otherwise the POST follows.
\* Faulty variant: the exception of process_vott_json swallowed.
after_transform_swallowed(ok) == "post"

after_transform(ok) == IF ok THEN "post" ELSE "idle"

\* Lines 229-240.
UploadRead ==
    /\ StartCommand("upload")
    /\ IF can_read(fs)
       THEN /\ pc' = "transform"
            /\ result' = "none"
            /\ steps' = <<"read_ok">>
       ELSE /\ pc' = "idle"
            /\ result' = "error"
            /\ steps' = <<"read_failed">>
    /\ requests' = <<>>
    /\ http_error' = FALSE
    /\ UNCHANGED <<fs, onboardVars, num_images, images_json, image_urls, local_images, reported>>

\* utils.vott_parser.process_vott_json: a pure mapping that returns the label
\* submission (TRUE) or raises on a document it cannot map (FALSE).
process_vott_json_returns == BOOLEAN

\* Line 241: process_vott_json returns the label submission or raises.
UploadTransform ==
    /\ pc = "transform"
    /\ \E ok \in process_vott_json_returns :
          /\ pc' = after_transform(ok)
          /\ result' = IF after_transform(ok) = "idle" THEN "error" ELSE result
          /\ steps' = Append(steps, IF ok THEN "transform_ok" ELSE "transform_failed")
    /\ UNCHANGED <<cmd, commands, requests, http_error, onboardVars, taggingVars>>

\* Lines 242-251.
UploadPost ==
    /\ pc = "post"
    /\ \E status \in Statuses :
          /\ requests' = Append(requests, Request("labels", 0, NoUrl, status))
          /\ http_error' = (http_error \/ IsError(status))
          /\ result' = IF IsError(status) THEN "error" ELSE "ok"
    /\ pc' = "idle"
    /\ steps' = Append(steps, "post")
    /\ UNCHANGED <<cmd, commands, onboardVars, taggingVars>>

(***************************************************************************)
(* Specifications.                                                         *)
(***************************************************************************)
InitCommon ==
    /\ result = "none"
    /\ requests = <<>>
    /\ http_error = FALSE
    /\ steps = <<>>
    /\ onboarding_files = <<>>
    /\ blobs = <<>>
    /\ fs = EmptyFs
    /\ fs_before = EmptyFs
    /\ num_images = NoCount
    /\ images_json = <<>>
    /\ image_urls = <<>>
    /\ local_images = <<>>
    /\ reported = 0

\* onboard_folder(config, folder_name) has just been called.
InitOnboard ==
    /\ InitCommon
    /\ pc = "walk"
    /\ cmd = "onboard"
    /\ commands = 1
    /\ folder_name \in Folders
    /\ tree \in Trees

NextOnboard ==
    \/ OnboardWalk
    \/ CreateBlob
    \/ CreateBlobRaises
    \/ OnboardContainer

SpecOnboard == InitOnboard /\ [][NextOnboard]_vars

\* No command has run yet and there is no tagging directory.
InitTagging ==
    /\ InitCommon
    /\ pc = "idle"
    /\ cmd = "none"
    /\ commands = 0
    /\ folder_name = <<"d">>
    /\ tree = {}

NextTagging ==
    \/ DownloadRejected
    \/ DownloadRequest
    \/ DownloadPrepare
    \/ WriteVottData
    \/ DownloadImage
    \/ DownloadFinish
    \/ UploadRead
    \/ UploadTransform
    \/ UploadPost

SpecTagging == InitTagging /\ [][NextTagging]_vars

(***************************************************************************)
(* Properties.                                                             *)
(***************************************************************************)
InSteps(x) == \E i \in 1..Len(steps) : steps[i] = x

Walked == InSteps("walk")

\* ---------------------------------------------------------------- C1
\* C1: the onboardcontainer request is issued at most once, and only when the
\* walk found at least one supported file and every file of the list was
\* uploaded, in order, without a failure; no request is issued when nothing
\* was found or an upload failed; and a run in which every upload succeeded
\* ends having issued exactly one.
C1_OnboardAfterAllUploads ==
    LET posts == RequestsTo("onboardcontainer")
    IN  /\ Cardinality(posts) <= 1
        /\ posts # {} =>
              /\ Walked
              /\ Len(onboarding_files) > 0
              /\ ~InSteps("blob_failed")
              /\ [i \in 1..Len(blobs) |-> blobs[i].path] = onboarding_files
              /\ { walk_path(folder_name, e) : e \in { x \in tree : supported_file_type(x.name) } }
                     = { blobs[i].path : i \in 1..Len(blobs) }
        /\ (Walked /\ Len(onboarding_files) = 0) => posts = {}
        /\ InSteps("blob_failed") => posts = {}
        /\ (pc = "idle" /\ Len(onboarding_files) > 0 /\ ~InSteps("blob_failed"))
              => Cardinality(posts) = 1

C1_Witness ==
    /\ pc = "idle"
    /\ Len(blobs) = 2
    /\ Cardinality(RequestsTo("onboardcontainer")) = 1

\* ---------------------------------------------------------------- C2
\* The text of a name from its last dot on (empty when it has no dot).
LastExtension(name) ==
    IF rfind(name, ".") = 0 THEN <<>> ELSE SubSeq(name, rfind(name, "."), Len(name))

\* A supported image file, in the claim's words.
IsSupportedImage(name) ==
    /\ name[1] # "."
    /\ lower(LastExtension(name)) \in SupportedSuffixes

UploadCount(e) ==
    Cardinality({ i \in 1..Len(blobs) : blobs[i].path = walk_path(folder_name, e) })

\* C2: every upload is of a supported image file of the tree, no file is uploaded
\* twice, and once the upload loop has run to its end without a failure every
\* supported image file, at any depth, has been uploaded exactly once and no
\* other file has.
C2_UploadedIffSupported ==
    /\ \A i \in 1..Len(blobs) :
          \E e \in tree : /\ blobs[i].path = walk_path(folder_name, e)
                          /\ IsSupportedImage(e.name)
    /\ \A e \in tree : UploadCount(e) <= 1
    /\ (pc = "idle" /\ ~InSteps("blob_failed")) =>
          \A e \in tree : UploadCount(e) = (IF IsSupportedImage(e.name) THEN 1 ELSE 0)

C2_Witness ==
    /\ pc = "idle"
    /\ ~InSteps("blob_failed")
    /\ \E e \in tree : Len(e.dir) = 2 /\ e.name = <<"a",".","J","P","G">> /\ UploadCount(e) = 1
    /\ \E e \in tree : ~IsSupportedImage(e.name) /\ UploadCount(e) = 0

\* ---------------------------------------------------------------- C3
\* C3: every request to the images endpoint carries an imageCount between 1 and
\* 100, which is 40 when no count was given and the given count otherwise; and
\* a download asked for a count <= 0 or > 100 has ended with
\* ImageLimitException, with no request sent and the tagging location as it was.
C3_ImageCountBounds ==
    /\ \A i \in RequestsTo("images") :
          /\ requests[i].count >= 1
          /\ requests[i].count <= 100
          /\ requests[i].count = (IF num_images.none THEN 40 ELSE num_images.n)
    /\ (cmd = "download" /\ ~num_images.none /\ (num_images.n <= 0 \/ num_images.n > 100)) =>
          /\ pc = "idle"
          /\ result = "ImageLimitException"
          /\ requests = <<>>
          /\ fs = fs_before

C3_Witness ==
    /\ cmd = "download"
    /\ result = "ImageLimitException"
    /\ num_images = Count(101)
    /\ fs.json # 0
    /\ fs.data # {}

\* ---------------------------------------------------------------- C4
DownloadCompleted ==
    /\ cmd = "download"
    /\ pc = "idle"
    /\ result = "ok"
    /\ Len(images_json) >= 1

\* C4: when download has completed without error after the service returned at
\* least one record, data.json is there, the data directory holds one image
\* file for each referenced URL, and the count reported equals the number of
\* image files in the data directory.
C4_OneFilePerImage ==
    DownloadCompleted =>
        /\ fs.json # 0
        /\ \A i \in 1..Len(image_urls) : \E f \in fs.data : f.name = url_name(image_urls[i])
        /\ Cardinality(fs.data) = Len(image_urls)
        /\ reported = Cardinality(fs.data)

\* ---------------------------------------------------------------- C5
\* C5: whenever a request of the running command was answered with an error
\* status, the command has ended with an error, and no file of the data
\* directory was written from an error response.
C5_HttpErrorsPropagated ==
    /\ http_error => (pc = "idle" /\ result = "error")
    /\ \A f \in fs.data : f.body # "error_page"

\* ---------------------------------------------------------------- C6
\* C6: upload issues at most one POST to labels, only as its third step after
\* data.json was read and transformed; none when the read or the transform
\* failed; exactly one when both succeeded and upload has ended; and the
\* tagging location is as it was when upload started.
C6_UploadPostsOnce ==
    LET posts == RequestsTo("labels")
    IN  cmd = "upload" =>
          /\ Cardinality(posts) <= 1
          /\ posts # {} => (steps = <<"read_ok", "transform_ok", "post">> /\ fs_before.json # 0)
          /\ (InSteps("read_failed") \/ InSteps("transform_failed")) => posts = {}
          /\ (pc = "idle" /\ ~InSteps("read_failed") /\ ~InSteps("transform_failed"))
                => Cardinality(posts) = 1
          /\ fs = fs_before

C6_Witness ==
    /\ cmd = "upload"
    /\ pc = "idle"
    /\ Cardinality(RequestsTo("labels")) = 1
    /\ fs.json # 0
    /\ fs.data # {}

\* ---------------------------------------------------------------- C7
\* C7: the blob name of every uploaded file is its path relative to
\* folder_name (joining folder_name with it gives the file's path back), and
\* two distinct files never get the same blob name.
C7_StripIsRelativePath ==
    /\ \A i \in 1..Len(blobs) :
          PurePath(path_join(folder_name, blobs[i].name)) = PurePath(blobs[i].path)
    /\ \A i, j \in 1..Len(blobs) :
          blobs[i].path # blobs[j].path => blobs[i].name # blobs[j].name

\* ---------------------------------------------------------------- C8
ZeroImagesAnswer ==
    /\ cmd = "download"
    /\ Len(requests) >= 1
    /\ requests[1].endpoint = "images"
    /\ ~IsError(requests[1].status)
    /\ Len(images_json) = 0

\* C8: when the images endpoint answered with zero images, download has
\* returned, the tagging location is exactly as it was before the command, and
\* no image was requested.
C8_ZeroImagesNoChange ==
    ZeroImagesAnswer =>
        /\ pc = "idle"
        /\ result = "ok"
        /\ fs = fs_before
        /\ RequestsTo("image") = {}

C8_Witness ==
    /\ ZeroImagesAnswer
    /\ fs.exists
    /\ fs.json # 0
    /\ fs.data # {}

\* ---------------------------------------------------------------- C9
\* C9: when download has completed without error after the service returned at
\* least one record, everything in the tagging location was written by this
\* command: data.json and every file of the data directory.
C9_OnlyThisBatch ==
    DownloadCompleted =>
        /\ fs.json \in {0, commands}
        /\ \A f \in fs.data : f.batch = commands

====
